---------------------------- MODULE Spec2Model ----------------------------
(***************************************************************************)
(* Outage dashboard: the admin/viewer dashboard component (stations, the   *)
(* feeder override map, the aggregation, the CSV import normalizer and the *)
(* toggles), modelled from the JavaScript source.                          *)
(*                                                                         *)
(* Representation of JavaScript values                                     *)
(*   string   a sequence of one-character strings, <<"F","1">> for "F1"    *)
(*   cell     a loosely typed CSV cell as PapaParse hands it over:         *)
(*            [t, s, n, b] with t in undef/null/str/num/bool               *)
(*   number   [nan |-> BOOLEAN, v |-> Int]; only integers are modelled     *)
(*   double   for the percentage, the IEEE-754 binary64 value is kept as   *)
(*            a 53 bit mantissa and an exponent, see the section below     *)
(***************************************************************************)
EXTENDS Integers, Sequences, FiniteSets, TLC

VARIABLES
    viewerOnly,        \* mode flag, fixed when the component is constructed
    stations,          \* useState([]): sequence of station records
    feederOut,         \* useState({}): feeder name -> BOOLEAN, partial
    q,                 \* useState(""): search text
    showAffectedOnly,  \* useState(false)
    page,              \* useState(1)
    pageSize,          \* useState(50)
    selectedFeeder,    \* useState("ALL")
    inflight,          \* default-CSV fetches started and not yet settled
    lastImport,        \* history: the rows the last applyParsedRows was given,
                       \* and whether it replaced a state changed by toggles
    current,           \* status-store: the blob under the key 'current', or null
    edge,              \* status-store: the copy of the blob an edge location serves
    reply              \* the last Response of the snapshot functions

\* the state of the dashboard component
uiVars == <<viewerOnly, stations, feederOut, q, showAffectedOnly, page,
            pageSize, selectedFeeder, inflight, lastImport>>

\* the state of the snapshot functions and their store
apiVars == <<current, edge, reply>>

vars == <<viewerOnly, stations, feederOut, q, showAffectedOnly, page,
          pageSize, selectedFeeder, inflight, lastImport, current, edge, reply>>

---------------------------------------------------------------------------
(* Bounds of the model                                                     *)

\* longest row list one import hands to applyParsedRows
MaxRows == 2
\* most default-CSV fetches pending at the same time
MaxInflight == 1
\* largest consumer count of the first station in the aggregation specification
MaxConsumers == 23
\* rows of the long file of the paging specification
MaxBigRows == 126

---------------------------------------------------------------------------
(* Strings                                                                 *)

UpperChars == <<"A","B","C","D","E","F","G","H","I","J","K","L","M",
                "N","O","P","Q","R","S","T","U","V","W","X","Y","Z">>
LowerChars == <<"a","b","c","d","e","f","g","h","i","j","k","l","m",
                "n","o","p","q","r","s","t","u","v","w","x","y","z">>
DigitChars == <<"0","1","2","3","4","5","6","7","8","9">>

\* String.prototype.toLowerCase, one character
LowerChar(c) ==
    IF \E i \in 1..26 : UpperChars[i] = c
    THEN LowerChars[CHOOSE i \in 1..26 : UpperChars[i] = c]
    ELSE c

\* String.prototype.toLowerCase
toLowerCase(s) == [i \in 1..Len(s) |-> LowerChar(s[i])]

IsSpace(c) == c = " "

RECURSIVE TrimStart(_)
TrimStart(s) ==
    IF s # <<>> /\ IsSpace(Head(s)) THEN TrimStart(Tail(s)) ELSE s

RECURSIVE TrimEnd(_)
TrimEnd(s) ==
    IF s # <<>> /\ IsSpace(s[Len(s)])
    THEN TrimEnd(SubSeq(s, 1, Len(s) - 1)) ELSE s

\* String.prototype.trim
trim(s) == TrimEnd(TrimStart(s))

\* String.prototype.startsWith
startsWith(s, p) == Len(s) >= Len(p) /\ SubSeq(s, 1, Len(p)) = p

\* a faulty includes that looks at the start of the string only
includesAtStart(s, p) == Len(s) >= Len(p) /\ SubSeq(s, 1, Len(p)) = p

\* String.prototype.includes
includes(s, p) ==
    \E i \in 0..(Len(s) - Len(p)) : SubSeq(s, i + 1, i + Len(p)) = p

IsDigit(c) == \E i \in 1..10 : DigitChars[i] = c
DigitVal(c) == (CHOOSE i \in 1..10 : DigitChars[i] = c) - 1

RECURSIVE NatToStr(_)
NatToStr(n) ==
    IF n < 10 THEN <<DigitChars[n + 1]>>
    ELSE NatToStr(n \div 10) \o <<DigitChars[(n % 10) + 1]>>

\* Number.prototype.toString for an integer
IntToStr(n) == IF n < 0 THEN <<"-">> \o NatToStr(0 - n) ELSE NatToStr(n)

RECURSIVE DigitsToNat(_)
DigitsToNat(s) ==
    IF s = <<>> THEN 0
    ELSE 10 * DigitsToNat(SubSeq(s, 1, Len(s) - 1)) + DigitVal(s[Len(s)])

AllDigits(s) == s # <<>> /\ \A i \in 1..Len(s) : IsDigit(s[i])

---------------------------------------------------------------------------
(* JavaScript numbers and loosely typed cells                              *)

NaN == [nan |-> TRUE, v |-> 0]
JsNum(n) == [nan |-> FALSE, v |-> n]

Undef == [t |-> "undef", s |-> <<>>, n |-> 0, b |-> FALSE]
Null == [t |-> "null", s |-> <<>>, n |-> 0, b |-> FALSE]
Str(s) == [t |-> "str", s |-> s, n |-> 0, b |-> FALSE]
Num(n) == [t |-> "num", s |-> <<>>, n |-> n, b |-> FALSE]
Bool(b) == [t |-> "bool", s |-> <<>>, n |-> 0, b |-> b]

\* row.key: a column the row does not have reads as undefined
Get(row, key) == IF key \in DOMAIN row THEN row[key] ELSE Undef

\* a ?? b
Coalesce(a, b) == IF a.t \in {"undef", "null"} THEN b ELSE a

\* ToBoolean of a cell (the filter's r.name)
Truthy(c) ==
    CASE c.t = "str" -> c.s # <<>>
      [] c.t = "num" -> c.n # 0
      [] c.t = "bool" -> c.b
      [] OTHER -> FALSE

\* StringToNumber: the trimmed text is empty (0), a decimal integer with an
\* optional sign, or not a number
StringToNumber(s) ==
    LET u == trim(s) IN
    IF u = <<>> THEN JsNum(0)
    ELSE IF AllDigits(u) THEN JsNum(DigitsToNat(u))
    ELSE IF Head(u) = "-" /\ AllDigits(Tail(u)) THEN JsNum(0 - DigitsToNat(Tail(u)))
    ELSE IF Head(u) = "+" /\ AllDigits(Tail(u)) THEN JsNum(DigitsToNat(Tail(u)))
    ELSE NaN

\* Number(x)
ToNumber(c) ==
    CASE c.t = "undef" -> NaN
      [] c.t = "null" -> JsNum(0)
      [] c.t = "bool" -> JsNum(IF c.b THEN 1 ELSE 0)
      [] c.t = "num" -> JsNum(c.n)
      [] OTHER -> StringToNumber(c.s)

\* String(x) and x.toString()
ToStr(c) ==
    CASE c.t = "undef" -> <<"u","n","d","e","f","i","n","e","d">>
      [] c.t = "null" -> <<"n","u","l","l">>
      [] c.t = "bool" -> IF c.b THEN <<"t","r","u","e">> ELSE <<"f","a","l","s","e">>
      [] c.t = "num" -> IntToStr(c.n)
      [] OTHER -> c.s

\* Number.isFinite
isFinite(x) == ~x.nan

---------------------------------------------------------------------------
(* IEEE-754 binary64 arithmetic, as far as the percentage needs it.        *)
(* A positive double is [m |-> mantissa bits, most significant first and  *)
(* m[1] = 1, e |-> the exponent of m[1]]: its value is the sum of          *)
(* m[i] * 2^(e - i + 1). Every operation rounds to nearest, ties to even.  *)

\* significand width of a JavaScript number
DoubleBits == 53

Bit == {0, 1}
Double == [m : Seq(Bit), e : Int]

\* The helpers below are functions, not operators: a function application
\* evaluates its arguments before the body, which keeps the 53 step
\* recursions flat.

NatToBits[n \in Nat] == IF n = 0 THEN <<>> ELSE NatToBits[n \div 2] \o <<n % 2>>

BitsToNat[bits \in Seq(Bit)] ==
    IF bits = <<>> THEN 0
    ELSE 2 * BitsToNat[SubSeq(bits, 1, Len(bits) - 1)] + bits[Len(bits)]

\* bits + 1; an all-ones input yields all zeros (the caller puts the 1 in front)
IncBits[bits \in Seq(Bit)] ==
    IF bits = <<>> THEN <<>>
    ELSE IF bits[Len(bits)] = 0
         THEN SubSeq(bits, 1, Len(bits) - 1) \o <<1>>
         ELSE IncBits[SubSeq(bits, 1, Len(bits) - 1)] \o <<0>>

\* the double nearest to the exact value given by bits (bits[1] = 1 at
\* exponent e) plus, when sticky, a nonzero amount below the last bit
RoundBits[bits \in Seq(Bit), e \in Int, sticky \in BOOLEAN] ==
    IF Len(bits) <= DoubleBits
    THEN [m |-> bits \o [i \in 1..(DoubleBits - Len(bits)) |-> 0], e |-> e]
    ELSE LET keep == SubSeq(bits, 1, DoubleBits)
             guard == bits[DoubleBits + 1]
             rest == sticky \/ \E i \in (DoubleBits + 2)..Len(bits) : bits[i] = 1
             up == guard = 1 /\ (rest \/ keep[DoubleBits] = 1)
         IN  IF ~up THEN [m |-> keep, e |-> e]
             ELSE IF \A i \in 1..DoubleBits : keep[i] = 1
                  THEN [m |-> <<1>> \o [i \in 1..(DoubleBits - 1) |-> 0], e |-> e + 1]
                  ELSE [m |-> IncBits[keep], e |-> e]

\* floor(log2(a / t)) for integers a, t > 0
Log2Floor[a \in Nat, t \in Nat] ==
    IF a >= t
    THEN (IF a >= 2 * t THEN 1 + Log2Floor[a, 2 * t] ELSE 0)
    ELSE Log2Floor[2 * a, t] - 1

\* the first n quotient bits of r / d, for d <= r < 2d at the start
DivBits[r \in Nat, d \in Nat, n \in Nat] ==
    IF n = 0 THEN <<>>
    ELSE LET b == IF r >= d THEN 1 ELSE 0
         IN  <<b>> \o DivBits[2 * (r - b * d), d, n - 1]

\* the remainder left after those n bits
DivRem[r \in Nat, d \in Nat, n \in Nat] ==
    IF n = 0 THEN r
    ELSE DivRem[2 * (r - (IF r >= d THEN d ELSE 0)), d, n - 1]

Pow2[k \in Int] == IF k <= 0 THEN 1 ELSE 2 * Pow2[k - 1]

\* a / t in double arithmetic, integers a, t > 0
DoubleDiv[a \in Nat, t \in Nat] ==
    LET e == Log2Floor[a, t]
        num == a * Pow2[0 - e]
        den == t * Pow2[e]
    IN  RoundBits[DivBits[num, den, DoubleBits + 1], e,
                  DivRem[num, den, DoubleBits + 1] # 0]

\* bits * c + carry, as bits
MulBits[bits \in Seq(Bit), c \in Nat, carry \in Nat] ==
    IF bits = <<>> THEN NatToBits[carry]
    ELSE LET v == bits[Len(bits)] * c + carry
         IN  MulBits[SubSeq(bits, 1, Len(bits) - 1), c, v \div 2] \o <<v % 2>>

\* x * c in double arithmetic, c a small positive integer
DoubleMul[x \in Double, c \in Nat] ==
    LET prod == MulBits[x.m, c, 0]
    IN  RoundBits[prod, x.e + (Len(prod) - DoubleBits), FALSE]

\* Math.round of the double x with the given sign: the nearest integer,
\* a tie going towards +Infinity
MathRound[negative \in BOOLEAN, x \in Double] ==
    LET int == IF x.e >= 0 THEN BitsToNat[SubSeq(x.m, 1, x.e + 1)] ELSE 0
        half == IF x.e >= -1 /\ x.e + 2 <= DoubleBits THEN x.m[x.e + 2] ELSE 0
        below == \E i \in (x.e + 3)..DoubleBits : i >= 1 /\ x.m[i] = 1
    IN  IF negative
        THEN 0 - (int + (IF half = 1 /\ below THEN 1 ELSE 0))
        ELSE int + half

\* Math.round(((affected / total) * 100) * 10), total > 0: the percentage
\* in tenths.  The code divides this integer by 10, which yields the double
\* nearest to that many tenths, so the tenths identify the value.
RoundedTenths(affected, total) ==
    IF affected = 0 THEN 0
    ELSE LET mag == IF affected < 0 THEN 0 - affected ELSE affected
         IN  MathRound[affected < 0, DoubleMul[DoubleMul[DoubleDiv[mag, total], 100], 10]]

---------------------------------------------------------------------------
(* String.prototype.localeCompare, root collation: the strings are         *)
(* compared first without regard to case (space, then punctuation, then    *)
(* digits, then letters; a proper prefix is smaller), and only when that   *)
(* is a tie by case, lower case first.                                     *)

CharRanks ==
    [c \in {UpperChars[i] : i \in 1..26} \cup {LowerChars[i] : i \in 1..26}
           \cup {DigitChars[i] : i \in 1..10} \cup {" "} |->
        IF IsSpace(c) THEN 0
        ELSE IF IsDigit(c) THEN 10 + DigitVal(c)
        ELSE 100 + (CHOOSE i \in 1..26 : LowerChars[i] = LowerChar(c))]

CharRank(c) == IF c \in DOMAIN CharRanks THEN CharRanks[c] ELSE 1

UpperSet == {UpperChars[i] : i \in 1..26}

IsUpper(c) == c \in UpperSet

\* the first place at which the two strings differ in rank decides; without
\* one the shorter string comes first
PrimaryCompare(a, b) ==
    LET n == IF Len(a) < Len(b) THEN Len(a) ELSE Len(b)
        differ == {i \in 1..n : CharRank(a[i]) # CharRank(b[i])}
    IN  IF differ = {}
        THEN (IF Len(a) < Len(b) THEN -1 ELSE IF Len(a) > Len(b) THEN 1 ELSE 0)
        ELSE LET k == CHOOSE i \in differ : \A j \in differ : i <= j
             IN  IF CharRank(a[k]) < CharRank(b[k]) THEN -1 ELSE 1

\* the first place at which the two strings differ in case decides, lower
\* case first
CaseCompare(a, b) ==
    LET n == IF Len(a) < Len(b) THEN Len(a) ELSE Len(b)
        differ == {i \in 1..n : IsUpper(a[i]) # IsUpper(b[i])}
    IN  IF differ = {} THEN 0
        ELSE LET k == CHOOSE i \in differ : \A j \in differ : i <= j
             IN  IF IsUpper(b[k]) THEN -1 ELSE 1

localeCompare(a, b) ==
    LET primary == PrimaryCompare(a, b)
    IN  IF primary # 0 THEN primary ELSE CaseCompare(a, b)

\* seq is in name order already
SortedByName(seq) ==
    \A i \in 1..(Len(seq) - 1) : localeCompare(seq[i].name, seq[i + 1].name) <= 0

\* element j comes before element i in the sorted array: its name compares
\* less, or equal and it stood before i
ComesBefore(seq, j, i) ==
    LET c == localeCompare(seq[j].name, seq[i].name)
    IN  c < 0 \/ (c = 0 /\ j < i)

\* Array.prototype.sort((a, b) => a.name.localeCompare(b.name)): stable, so
\* an array in name order stays as it is and any other has each element at
\* the place after the elements that come before it
SortByName(seq) ==
    IF SortedByName(seq) THEN seq
    ELSE [k \in 1..Len(seq) |->
             seq[CHOOSE i \in 1..Len(seq) :
                     Cardinality({j \in 1..Len(seq) : ComesBefore(seq, j, i)}) = k - 1]]

---------------------------------------------------------------------------
(* Aggregation: the feeders/totals memo                                    *)

ALL == <<"A","L","L">>
Unassigned == <<"U","n","a","s","s","i","g","n","e","d">>
FalseText == <<"f","a","l","s","e">>

\* const f = (s.feeder || "Unassigned").toString()
FeederKey(s) == IF s.feeder # <<>> THEN s.feeder ELSE Unassigned

\* const cons = Number(s.consumers) || 0
Cons(s) == IF s.consumers.nan THEN 0 ELSE s.consumers.v

\* !!fo[f]
IsOn(fo, f) == f \in DOMAIN fo /\ fo[f]

\* a faulty effOut that forgets the feeder override
IsOutOnly(fo, s) == s.isOut

\* const effOut = !!(feederOut[f]) || !!s.isOut
EffOut(fo, s) == IsOn(fo, FeederKey(s)) \/ s.isOut

\* { ...s, effOut }
WithEffOut(fo, s) ==
    [id |-> s.id, feeder |-> s.feeder, name |-> s.name,
     consumers |-> s.consumers, isOut |-> s.isOut, effOut |-> EffOut(fo, s)]

\* the keys of the groups Map, in insertion order
GroupKeys(sts) ==
    LET keySet == {FeederKey(sts[i]) : i \in 1..Len(sts)}
        first == [f \in keySet |-> CHOOSE i \in 1..Len(sts) : FeederKey(sts[i]) = f]
    IN  [k \in 1..Cardinality(keySet) |->
            CHOOSE f \in keySet :
                Cardinality({g \in keySet : first[g] <= first[f]}) = k]

\* the stations pushed to group f, in input order
GroupStations(sts, fo, f) ==
    LET members == SelectSeq(sts, LAMBDA s : FeederKey(s) = f)
    IN  [i \in 1..Len(members) |-> WithEffOut(fo, members[i])]

\* the sum of counts[lo..hi], by halves
RECURSIVE SumRange(_, _, _)
SumRange(counts, lo, hi) ==
    IF lo > hi THEN 0
    ELSE IF lo = hi THEN counts[lo]
    ELSE SumRange(counts, lo, (lo + hi) \div 2)
         + SumRange(counts, ((lo + hi) \div 2) + 1, hi)

\* the sum of a list of counts
SumOf(counts) == SumRange(counts, 1, Len(counts))

\* a faulty group total that counts the first station only
FirstConsumers(sts, f) == IF sts = <<>> THEN 0 ELSE Cons(Head(sts))

\* g.total += cons, over the stations of group f
GroupTotal(sts, f) ==
    SumOf([i \in 1..Len(sts) |-> IF FeederKey(sts[i]) = f THEN Cons(sts[i]) ELSE 0])

\* if (effOut) g.affected += cons, over the stations of group f
GroupAffected(sts, fo, f) ==
    SumOf([i \in 1..Len(sts) |->
              IF FeederKey(sts[i]) = f /\ EffOut(fo, sts[i]) THEN Cons(sts[i]) ELSE 0])

Group(sts, fo, f) ==
    LET total == GroupTotal(sts, f)
        affected == GroupAffected(sts, fo, f)
    IN  [name |-> f,
         stations |-> GroupStations(sts, fo, f),
         total |-> total,
         affected |-> affected,
         healthy |-> total - affected]

\* Array.from(groups.values()).sort((a,b) => a.name.localeCompare(b.name))
\* the sort reads the names only: GroupOrder is the sorted list of names
GroupOrder(sts) ==
    LET keys == GroupKeys(sts)
    IN  SortByName([i \in 1..Len(keys) |-> [name |-> keys[i]]])

Feeders(sts, fo) ==
    LET order == GroupOrder(sts)
    IN  [i \in 1..Len(order) |-> Group(sts, fo, order[i].name)]

\* total += cons
TotalOf(sts) == SumOf([i \in 1..Len(sts) |-> Cons(sts[i])])

\* if (effOut) affected += cons
AffectedOf(sts, fo) ==
    SumOf([i \in 1..Len(sts) |-> IF EffOut(fo, sts[i]) THEN Cons(sts[i]) ELSE 0])

\* const pct = total > 0 ? Math.round(((affected / total) * 100) * 10) / 10 : 0
\* kept in tenths: 700 stands for 70.0
Pct(affected, total) == IF total > 0 THEN RoundedTenths(affected, total) ELSE 0

Totals(sts, fo) ==
    [total |-> TotalOf(sts),
     affected |-> AffectedOf(sts, fo),
     healthy |-> TotalOf(sts) - AffectedOf(sts, fo),
     pct |-> Pct(AffectedOf(sts, fo), TotalOf(sts))]

feeders == Feeders(stations, feederOut)
totals == Totals(stations, feederOut)

---------------------------------------------------------------------------
(* Import normalization: applyParsedRows                                   *)

\* rid(): a fresh identifier; the i-th call of one import yields "uuid" i,
\* which no provided id (a string of single characters) can equal
rid(i) == <<"uuid">> \o NatToStr(i)

\* parsed.filter(r => r.name && Number.isFinite(Number(r.consumers)))
KeepRow(r) == Truthy(Get(r, "name")) /\ isFinite(ToNumber(Get(r, "consumers")))

\* row.id?.toString().trim() || rid()
RowId(row, i) ==
    LET c == Get(row, "id")
        text == IF c.t \in {"undef", "null"} THEN <<>> ELSE trim(ToStr(c))
    IN  IF text # <<>> THEN text ELSE rid(i)

\* (row.feeder ?? row.bay ?? row.feeder_name ?? "Unassigned").toString().trim()
RowFeeder(row) ==
    trim(ToStr(Coalesce(Get(row, "feeder"),
               Coalesce(Get(row, "bay"),
               Coalesce(Get(row, "feeder_name"), Str(Unassigned))))))

\* (row.name ?? row.station ?? row.substation ?? "").toString().trim()
RowName(row) ==
    trim(ToStr(Coalesce(Get(row, "name"),
               Coalesce(Get(row, "station"),
               Coalesce(Get(row, "substation"), Str(<<>>))))))

\* Number(row.consumers ?? row.consumer_count ?? row.count ?? 0)
RowConsumers(row) ==
    ToNumber(Coalesce(Get(row, "consumers"),
             Coalesce(Get(row, "consumer_count"),
             Coalesce(Get(row, "count"), Num(0)))))

\* a faulty coercion that accepts the text true only
IsTrueText(c) == toLowerCase(trim(ToStr(c))) = <<"t","r","u","e">>

\* String(x).trim().toLowerCase().startsWith("t")
StartsWithT(c) == startsWith(toLowerCase(trim(ToStr(c))), <<"t">>)

\* String(row.isOut ?? row.outage ?? "false").trim().toLowerCase().startsWith("t")
RowIsOut(row) ==
    StartsWithT(Coalesce(Get(row, "isOut"), Coalesce(Get(row, "outage"), Str(FalseText))))

\* the object literal of the .map callback
MapRow(row, i) ==
    [id |-> RowId(row, i), feeder |-> RowFeeder(row), name |-> RowName(row),
     consumers |-> RowConsumers(row), isOut |-> RowIsOut(row)]

\* Array.prototype.filter with KeepRow
FilterRows(parsed) == SelectSeq(parsed, KeepRow)

\* const rows = parsed.filter(...).map(...)
NormalizeRows(parsed) ==
    LET kept == FilterRows(parsed)
    IN  [i \in 1..Len(kept) |-> MapRow(kept[i], i)]

\* String((r.feeder_isOut ?? "false")).toLowerCase().startsWith("t"), r being
\* an element of rows, the mapped records
RowFeederIsOut(r) ==
    startsWith(toLowerCase(ToStr(Coalesce(Get(r, "feeder_isOut"), Str(FalseText)))), <<"t">>)

\* for (const r of rows) initialFeederOut[r.feeder] = ...: the last row of a
\* feeder decides
InitialFeederOut(rows) ==
    [f \in {rows[i].feeder : i \in 1..Len(rows)} |->
        RowFeederIsOut(rows[CHOOSE i \in 1..Len(rows) :
                                /\ rows[i].feeder = f
                                /\ \A j \in (i + 1)..Len(rows) : rows[j].feeder # f])]


---------------------------------------------------------------------------
(* Export and re-import: exportCsv, Papa.unparse, Papa.parse               *)

TrueTexts == {<<"t","r","u","e">>, <<"T","R","U","E">>}
FalseTexts == {<<"f","a","l","s","e">>, <<"F","A","L","S","E">>}

\* Papa.parse's FLOAT test, for the integers the model holds: blanks, an
\* optional minus sign, digits, blanks
IsFloatText(text) ==
    LET u == trim(text)
    IN  AllDigits(u) \/ (u # <<>> /\ Head(u) = "-" /\ AllDigits(Tail(u)))

\* Papa.parse with dynamicTyping: true, applied to the text of one field
parseDynamic(text) ==
    IF text \in TrueTexts THEN Bool(TRUE)
    ELSE IF text \in FalseTexts THEN Bool(FALSE)
    ELSE IF IsFloatText(text) THEN Num(StringToNumber(text).v)
    ELSE IF text = <<>> THEN Null
    ELSE Str(text)

\* Papa.unparse writes value.toString() for a number and for a boolean
NumberText(x) == IF x.nan THEN <<"N","a","N">> ELSE IntToStr(x.v)
BooleanText(b) == IF b THEN <<"t","r","u","e">> ELSE <<"f","a","l","s","e">>

\* exportCsv: the table Papa.unparse writes, one record of field texts for
\* each station; the quoting of the CSV text is undone by the parser
exportCsv(sts) ==
    [i \in 1..Len(sts) |->
        [id |-> sts[i].id, feeder |-> sts[i].feeder, name |-> sts[i].name,
         consumers |-> NumberText(sts[i].consumers),
         isOut |-> BooleanText(sts[i].isOut)]]

\* Papa.parse of an exported table: header: true, dynamicTyping: true
ParseTable(table) ==
    [i \in 1..Len(table) |->
        [key \in DOMAIN table[i] |-> parseDynamic(table[i][key])]]

\* the stations and the override map an import of the export installs
Reimported(sts) == NormalizeRows(ParseTable(exportCsv(sts)))

---------------------------------------------------------------------------
(* Toggles: the state updaters                                             *)

\* a faulty updater that sets the override instead of flipping it
SwitchedOff(prev, name) ==
    [f \in DOMAIN prev \cup {name} |-> IF f = name THEN TRUE ELSE prev[f]]

\* prev => ({ ...prev, [name]: !prev[name] })
ToggledFeederOut(prev, name) ==
    [f \in DOMAIN prev \cup {name} |-> IF f = name THEN ~IsOn(prev, name) ELSE prev[f]]

\* a faulty updater that negates isOut of every station
FlippedAll(prev, id) ==
    [i \in 1..Len(prev) |-> [prev[i] EXCEPT !.isOut = ~prev[i].isOut]]

\* prev => prev.map(s => (s.id === id ? { ...s, isOut: !s.isOut } : s))
ToggledStations(prev, id) ==
    [i \in 1..Len(prev) |->
        IF prev[i].id = id THEN [prev[i] EXCEPT !.isOut = ~prev[i].isOut] ELSE prev[i]]

---------------------------------------------------------------------------
(* Query/view layer: flatRows, filteredRows, totalPages, pageRows          *)

\* { feeder: f.name, feederEffOut: !!feederOut[f.name], ...s }: the spread
\* comes last, so the row's feeder is the station's own feeder field
FlatRow(fo, g, s) ==
    [feeder |-> s.feeder, feederEffOut |-> IsOn(fo, g.name), id |-> s.id,
     name |-> s.name, consumers |-> s.consumers, isOut |-> s.isOut,
     effOut |-> s.effOut]

RECURSIVE FlattenGroups(_, _)
FlattenGroups(fo, groups) ==
    IF groups = <<>> THEN <<>>
    ELSE LET g == Head(groups)
         IN  [i \in 1..Len(g.stations) |-> FlatRow(fo, g, g.stations[i])]
             \o FlattenGroups(fo, Tail(groups))

\* for (const f of feeders) for (const s of f.stations) list.push(...): of
\* each feeder the loop reads the name and the stations
FlatRows(sts, fo) ==
    LET order == GroupOrder(sts)
    IN  FlattenGroups(fo, [i \in 1..Len(order) |->
                              [name |-> order[i].name,
                               stations |-> GroupStations(sts, fo, order[i].name)]])

\* the three filter predicates of filteredRows
RowPasses(r, needle, affectedOnly, sel) ==
    /\ sel # ALL => r.feeder = sel
    /\ needle # <<>> =>
          \/ includes(toLowerCase(r.name), needle)
          \/ includes(toLowerCase(r.feeder), needle)
    /\ affectedOnly => r.effOut

FilterFlat(rows, needle, affectedOnly, sel) ==
    SelectSeq(rows, LAMBDA r : RowPasses(r, needle, affectedOnly, sel))

FilteredRows(sts, fo, text, affectedOnly, sel) ==
    SortByName(FilterFlat(FlatRows(sts, fo), toLowerCase(trim(text)), affectedOnly, sel))

\* OutageConsumersDashboard4.jsx: the comparator of its filteredRows,
\* a.feeder.localeCompare(b.feeder) || a.name.localeCompare(b.name)
FeederThenName(a, b) ==
    LET byFeeder == localeCompare(a.feeder, b.feeder)
    IN  IF byFeeder # 0 THEN byFeeder ELSE localeCompare(a.name, b.name)

\* Array.prototype.sort with FeederThenName: stable
SortByFeederThenName(seq) ==
    [k \in 1..Len(seq) |->
        seq[CHOOSE i \in 1..Len(seq) :
                Cardinality({j \in 1..Len(seq) :
                    \/ FeederThenName(seq[j], seq[i]) < 0
                    \/ FeederThenName(seq[j], seq[i]) = 0 /\ j < i}) = k - 1]]

\* OutageConsumersDashboard4.jsx: filteredRows, which has no feeder scope
FilteredRows4(sts, fo, text, affectedOnly) ==
    SortByFeederThenName(
        FilterFlat(FlatRows(sts, fo), toLowerCase(trim(text)), affectedOnly, ALL))

\* Math.max(1, Math.ceil(filteredRows.length / pageSize))
TotalPages(n, size) ==
    LET ceil == (n + size - 1) \div size IN IF ceil > 1 THEN ceil ELSE 1

\* filteredRows.slice(start, start + pageSize), start = (page - 1) * pageSize
PageRows(rows, p, size) ==
    LET start == (p - 1) * size
        stop == IF start + size < Len(rows) THEN start + size ELSE Len(rows)
    IN  SubSeq(rows, start + 1, stop)

filteredRows == FilteredRows(stations, feederOut, q, showAffectedOnly, selectedFeeder)
totalPages == TotalPages(Len(filteredRows), pageSize)
pageRows == PageRows(filteredRows, page, pageSize)

\* OutageConsumersDashboard4.jsx: the rows it hands to its pager
filteredRows4 == FilteredRows4(stations, feederOut, q, showAffectedOnly)

---------------------------------------------------------------------------
(* Inputs: the parsed rows of the CSV files a run may import.  PapaParse   *)
(* runs with dynamicTyping, so an empty cell arrives as null, a numeric    *)
(* cell as a number and true/false as booleans; other cells are strings.   *)

F1 == <<"F","1">>
F2 == <<"F","2">>

RowA == [id |-> Str(<<"a">>), feeder |-> Str(F1), name |-> Str(<<"A">>),
         consumers |-> Num(40), isOut |-> Bool(TRUE)]
RowB == [id |-> Str(<<"b">>), feeder |-> Str(F1), name |-> Str(<<"B">>),
         consumers |-> Num(60), isOut |-> Bool(FALSE)]
RowC == [id |-> Str(<<"c">>), feeder |-> Str(F2), name |-> Str(<<"C">>),
         consumers |-> Num(100)]
\* the id of RowA once more, on another feeder
RowD == [id |-> Str(<<"a">>), feeder |-> Str(F2), name |-> Str(<<"D">>),
         consumers |-> Num(7)]
\* a feeder cell holding one space, and no id column
RowE == [feeder |-> Str(<<" ">>), name |-> Str(<<"E">>), consumers |-> Num(5)]

\* the sheets the files are cut from: a file is a run of at most MaxRows
\* consecutive rows of one sheet
Sheets == {<<RowA, RowB, RowC>>, <<RowD, RowA, RowE>>}

\* the end-to-end scenario: two stations on F1, one on F2
ScenarioRows == <<RowA, RowB, RowC>>

Runs(sheet, n) ==
    {SubSeq(sheet, i, j) : i \in 1..Len(sheet), j \in 0..Len(sheet)}
        \ {run \in {SubSeq(sheet, i, j) : i \in 1..Len(sheet), j \in 0..Len(sheet)} :
               Len(run) > n}

Files == UNION {Runs(sheet, MaxRows) : sheet \in Sheets} \cup {ScenarioRows}

\* Rows for the normalizer: column aliases, the override column, cells that
\* do not coerce
B1 == <<"B","1">>

\* no name column, the name under the alias station
RowStation == [station |-> Str(<<"S">>), consumers |-> Num(10), feeder |-> Str(F1)]
\* no consumers column, the count under the alias consumer_count
RowConsumerCount == [name |-> Str(<<"T">>), consumer_count |-> Num(20), feeder |-> Str(F1)]
\* the aliases substation, count and outage
RowSubstation == [substation |-> Str(<<"U">>), count |-> Num(5), outage |-> Bool(TRUE)]
\* the feeder under the alias bay
RowBay == [name |-> Str(<<"V">>), consumers |-> Num(8), bay |-> Str(B1)]
\* the feeder under the alias feeder_name, with the override column set
RowOverride == [name |-> Str(<<"W">>), consumers |-> Num(9), feeder_name |-> Str(F2),
                feeder_isOut |-> Bool(TRUE)]
\* the same feeder with the override column cleared
RowNoOverride == [name |-> Str(<<"Z">>), consumers |-> Num(6), feeder |-> Str(F2),
                  feeder_isOut |-> Bool(FALSE)]
\* a name of one space
RowBlankName == [name |-> Str(<<" ">>), consumers |-> Num(3), feeder |-> Str(F1)]
\* no name at all
RowNoName == [consumers |-> Num(4), feeder |-> Str(F1)]
\* consumers that is no number
RowAbc == [name |-> Str(<<"X">>), consumers |-> Str(<<"a","b","c">>)]
\* an empty consumers cell next to a consumer_count that is no number
RowEmptyCount == [name |-> Str(<<"Y">>), consumers |-> Null,
                  consumer_count |-> Str(<<"a","b","c">>)]
\* a numeric id and isOut as the text True
RowTrueText == [id |-> Num(7), name |-> Str(<<"P">>), consumers |-> Num(2),
                isOut |-> Str(<<"T","r","u","e">>)]

\* a negative count
RowNegative == [name |-> Str(<<"N">>), consumers |-> Num(-5), feeder |-> Str(F1)]
\* a feeder that is named like the dropdown's sentinel
RowFeederAll == [name |-> Str(<<"Q">>), consumers |-> Num(11), feeder |-> Str(ALL)]
\* a line with more fields than the header: Papa.parse reports TooManyFields
\* in errors and keeps the surplus under __parsed_extra
RowExtra == [name |-> Str(<<"R">>), consumers |-> Num(12), feeder |-> Str(F2),
             __parsed_extra |-> Str(<<"x">>)]

\* Papa.parse's errors for the data: one TooManyFields error for every row
\* that carries __parsed_extra
ParseErrors(parsed) == {i \in 1..Len(parsed) : "__parsed_extra" \in DOMAIN parsed[i]}

\* a name that is the text false with a blank before it: no boolean for
\* Papa.parse, which compares the whole field
RowPaddedFalse == [name |-> Str(<<" ","f","a","l","s","e">>), consumers |-> Num(9),
                   feeder |-> Str(F1)]

NormSheets == {<<RowStation, RowConsumerCount, RowSubstation>>,
               <<RowBay, RowNoOverride, RowOverride>>,
               <<RowBlankName, RowNoName, RowAbc>>,
               <<RowEmptyCount, RowTrueText, RowBay>>,
               <<RowNegative, RowFeederAll, RowExtra>>,
               <<RowPaddedFalse>>}

NormFiles == UNION {Runs(sheet, MaxRows) : sheet \in NormSheets}

\* Rows for the aggregation: one station on F1 with any count up to
\* MaxConsumers, one on F2 with one of a few counts
OtherCounts == {2, 57}

CountRows(c1, c2) ==
    <<[id |-> Str(<<"a">>), feeder |-> Str(F1), name |-> Str(<<"A">>), consumers |-> Num(c1)],
      [id |-> Str(<<"b">>), feeder |-> Str(F2), name |-> Str(<<"B">>), consumers |-> Num(c2)]>>

AggFiles == {CountRows(c1, c2) : c1 \in 0..MaxConsumers, c2 \in OtherCounts}

\* Rows for the pager: a long file in name order (S001, S002, ...). The
\* first OutRows stations are out on feeder F1, the last SpareRows stations
\* are on feeder F3, and the stations between are on feeder F2.
OutRows == 10

SpareRows == 6

F3 == <<"F", "3">>

Pad3(i) ==
    <<DigitChars[((i \div 100) % 10) + 1], DigitChars[((i \div 10) % 10) + 1],
      DigitChars[(i % 10) + 1]>>

BigRow(i) ==
    [id |-> Num(i), name |-> Str(<<"S">> \o Pad3(i)), consumers |-> Num(1),
     feeder |-> Str(IF i <= OutRows THEN F1
                    ELSE IF i > MaxBigRows - SpareRows THEN F3 ELSE F2),
     isOut |-> Bool(i <= OutRows)]

BigFile(n) == [i \in 1..n |-> BigRow(i)]

PageFiles == {BigFile(MaxBigRows)}

\* what the user may type into the search box
SearchTexts == {<<>>, <<"F","1">>}

\* Rows and search texts for the text filter: names and a feeder in mixed
\* case, texts with blanks around them, in another case, matching a name
\* only in the middle, matching a feeder only, and matching nothing
G1 == <<"G","b">>

RowAb == [feeder |-> Str(F1), name |-> Str(<<"A","b">>), consumers |-> Num(1),
          isOut |-> Bool(TRUE)]
RowBa == [feeder |-> Str(G1), name |-> Str(<<"b","A">>), consumers |-> Num(2)]

ViewFiles == {<<RowAb, RowBa, RowE>>}

\* Cells of the isOut and outage columns: a missing column, an empty cell,
\* the texts and values the coercion rule names, and a text with a blank
\* before it
OutCells ==
    {Undef, Null, Bool(TRUE), Bool(FALSE), Num(1), Num(0),
     Str(<<"t","r","u","e">>), Str(<<"T">>), Str(<<"T","R","U","E">>),
     Str(<<"y","e","s">>), Str(<<"f","a","l","s","e">>), Str(<<" ","t">>)}

\* one-row files with every pair of cells in the two columns
CoerceFiles ==
    {<<[name |-> Str(<<"Z">>), consumers |-> Num(1), feeder |-> Str(F1),
        isOut |-> c1, outage |-> c2]>> : c1 \in OutCells, c2 \in OutCells}

ViewTexts == {<<>>, <<" ">>, <<" ","B"," ">>, <<"A","B">>, <<"g">>, <<"z">>}

\* the options of the page size select
PageSizes == {25, 50, 100, 200, 10000}

---------------------------------------------------------------------------
(* The component as a state machine.  Every action is one event handler    *)
(* followed by the render it causes and by the page reset effect           *)
(*   useEffect(() => { if (page > totalPages) setPage(1); },               *)
(*             [filteredRows.length, pageSize])                            *)
(* which runs when the filtered row count or the page size changed.        *)

\* a faulty effect that moves an out-of-range page to the last page
ClampedPage(nPage, nLen, nSize) ==
    IF nPage > TotalPages(nLen, nSize) THEN TotalPages(nLen, nSize) ELSE nPage

\* a faulty effect that never resets the page
KeptPage(nPage, nLen, nSize) == nPage

\* the page once the reset effect has run, nPage being the page the handler
\* left and nLen, nSize the new filtered row count and page size
PageAfterEffect(nPage, nLen, nSize) ==
    IF /\ nPage > 1      \* totalPages is at least 1
       /\ nPage > TotalPages(nLen, nSize)
       /\ nLen # Len(filteredRows) \/ nSize # pageSize
    THEN 1 ELSE nPage

\* applyParsedRows' two results for every file, computed once
Installed ==
    [parsed \in Files \cup NormFiles \cup AggFiles \cup PageFiles \cup ViewFiles
                  \cup CoerceFiles |->
        [stations |-> NormalizeRows(parsed),
         feederOut |-> InitialFeederOut(NormalizeRows(parsed))]]

\* the state differs from what the last import installed
Modified ==
    \/ stations # Installed[lastImport.parsed].stations
    \/ feederOut # Installed[lastImport.parsed].feederOut

Init ==
    /\ viewerOnly \in BOOLEAN
    /\ stations = <<>>
    /\ feederOut = [f \in {} |-> FALSE]
    /\ q = <<>>
    /\ showAffectedOnly = FALSE
    /\ page = 1
    /\ pageSize = 50
    /\ selectedFeeder = ALL
    /\ inflight = 1      \* the mount effect has called loadDefaultCsv(true)
    /\ lastImport = [parsed |-> <<>>, discarded |-> FALSE]
    /\ current = Null    \* nothing has been published
    /\ edge = Null
    /\ reply = Null      \* no request has been answered

\* a faulty import that spreads the new overrides over the old ones
applyKeepingOverrides(parsed) ==
    /\ stations' = Installed[parsed].stations
    /\ feederOut' = [f \in DOMAIN feederOut \cup DOMAIN Installed[parsed].feederOut |->
                        IF f \in DOMAIN feederOut THEN feederOut[f]
                        ELSE Installed[parsed].feederOut[f]]
    /\ selectedFeeder' = ALL
    /\ page' = 1
    /\ lastImport' = [parsed |-> parsed, discarded |-> Modified]
    /\ UNCHANGED <<apiVars, viewerOnly, q, showAffectedOnly, pageSize>>

\* a faulty import that leaves the feeder scope as it is
applyKeepingScope(parsed) ==
    /\ stations' = Installed[parsed].stations
    /\ feederOut' = Installed[parsed].feederOut
    /\ page' = 1
    /\ lastImport' = [parsed |-> parsed, discarded |-> Modified]
    /\ UNCHANGED <<apiVars, viewerOnly, q, showAffectedOnly, pageSize, selectedFeeder>>

applyParsedRows(parsed) ==
    /\ stations' = Installed[parsed].stations
    /\ feederOut' = Installed[parsed].feederOut
    /\ selectedFeeder' = ALL
    /\ page' = 1
    /\ lastImport' = [parsed |-> parsed, discarded |-> Modified]
    /\ UNCHANGED <<apiVars, viewerOnly, q, showAffectedOnly, pageSize>>

\* the Import CSV control of the admin top bar, with the parse of one of
\* the given files completed
importFrom(files) ==
    /\ ~viewerOnly
    /\ \E parsed \in files : applyParsedRows(parsed)
    /\ UNCHANGED inflight

importCsv == importFrom(Files)

\* loadDefaultCsv up to its first await: the Load default CSV button of the
\* admin top bar, or the Retry button shown while totals.total === 0
loadDefaultCsv ==
    /\ ~viewerOnly \/ TotalOf(stations) = 0
    /\ inflight < MaxInflight
    /\ inflight' = inflight + 1
    /\ UNCHANGED <<apiVars, viewerOnly, stations, feederOut, q, showAffectedOnly, page,
                   pageSize, selectedFeeder, lastImport>>

\* the fetch answered ok: the text is parsed and applied
loadDefaultCsvOk ==
    /\ inflight > 0
    /\ inflight' = inflight - 1
    /\ \E parsed \in Files : applyParsedRows(parsed)

\* a faulty catch block that clears the stations and the override map
failedLoadClears ==
    /\ inflight > 0
    /\ inflight' = inflight - 1
    /\ stations' = <<>>
    /\ feederOut' = [f \in {} |-> FALSE]
    /\ UNCHANGED <<apiVars, viewerOnly, q, showAffectedOnly, page, pageSize, selectedFeeder,
                   lastImport>>

\* the fetch failed or answered not ok: the catch block
loadDefaultCsvFailed ==
    /\ inflight > 0
    /\ inflight' = inflight - 1
    /\ UNCHANGED <<apiVars, viewerOnly, stations, feederOut, q, showAffectedOnly, page,
                   pageSize, selectedFeeder, lastImport>>

\* a faulty toggleFeeder without the viewer check
toggleFeederAnyMode(name) ==
    /\ feederOut' = ToggledFeederOut(feederOut, name)
    /\ page' = PageAfterEffect(page,
                  Len(FilteredRows(stations, feederOut', q, showAffectedOnly,
                                   selectedFeeder)),
                  pageSize)
    /\ UNCHANGED <<apiVars, viewerOnly, stations, q, showAffectedOnly, pageSize,
                   selectedFeeder, inflight, lastImport>>

toggleFeeder(name) ==
    LET next == IF viewerOnly THEN feederOut ELSE ToggledFeederOut(feederOut, name) IN
    /\ feederOut' = next
    /\ page' = PageAfterEffect(page,
                  Len(FilteredRows(stations, next, q, showAffectedOnly, selectedFeeder)),
                  pageSize)
    /\ UNCHANGED <<apiVars, viewerOnly, stations, q, showAffectedOnly, pageSize,
                   selectedFeeder, inflight, lastImport>>

toggleStation(id) ==
    LET next == IF viewerOnly THEN stations ELSE ToggledStations(stations, id) IN
    /\ stations' = next
    /\ page' = PageAfterEffect(page,
                  Len(FilteredRows(next, feederOut, q, showAffectedOnly, selectedFeeder)),
                  pageSize)
    /\ UNCHANGED <<apiVars, viewerOnly, feederOut, q, showAffectedOnly, pageSize,
                   selectedFeeder, inflight, lastImport>>

\* AdminAllView: the Feeder OFF checkbox of a row of the current page
ToggleFeederOfRow ==
    /\ ~viewerOnly /\ selectedFeeder = ALL
    /\ \E rows \in {pageRows} :
          \E name \in {rows[i].feeder : i \in 1..Len(rows)} : toggleFeeder(name)

\* AdminFeederView: the checkbox in the header of the selected feeder
ToggleSelectedFeeder ==
    /\ ~viewerOnly /\ selectedFeeder # ALL
    /\ toggleFeeder(selectedFeeder)

\* the Substation OFF checkbox of a row of the current page; it is disabled
\* while feederOut[r.feeder] (AdminAllView) or feederOut[selectedFeeder]
\* (StationRow) is set
ToggleStationOfRow ==
    /\ ~viewerOnly
    /\ \E rows \in {pageRows} :
       \E i \in 1..Len(rows) :
          /\ ~IsOn(feederOut, IF selectedFeeder = ALL THEN rows[i].feeder
                              ELSE selectedFeeder)
          /\ toggleStation(rows[i].id)

\* the feeder dropdown: setSelectedFeeder(e.target.value); setPage(1)
SelectFeeder ==
    /\ ~viewerOnly
    /\ \E name \in {ALL} \cup {FeederKey(stations[i]) : i \in 1..Len(stations)} :
          /\ name # selectedFeeder
          /\ selectedFeeder' = name
    /\ page' = 1
    /\ UNCHANGED <<apiVars, viewerOnly, stations, feederOut, q, showAffectedOnly, pageSize,
                   inflight, lastImport>>

\* AdminFeederView: Show all feeders, setSelectedFeeder("ALL")
ShowAllFeeders ==
    /\ ~viewerOnly /\ selectedFeeder # ALL
    /\ selectedFeeder' = ALL
    /\ page' = PageAfterEffect(page,
                  Len(FilteredRows(stations, feederOut, q, showAffectedOnly, ALL)),
                  pageSize)
    /\ UNCHANGED <<apiVars, viewerOnly, stations, feederOut, q, showAffectedOnly, pageSize,
                   inflight, lastImport>>

\* the search box: setQ(e.target.value); setPage(1)
setQFrom(texts) ==
    /\ ~viewerOnly
    /\ \E text \in texts : text # q /\ q' = text
    /\ page' = 1
    /\ UNCHANGED <<apiVars, viewerOnly, stations, feederOut, showAffectedOnly, pageSize,
                   selectedFeeder, inflight, lastImport>>

SetQ == setQFrom(SearchTexts)

\* the Affected only checkbox: setShowAffectedOnly(e.target.checked); setPage(1)
SetShowAffectedOnly ==
    /\ ~viewerOnly
    /\ showAffectedOnly' = ~showAffectedOnly
    /\ page' = 1
    /\ UNCHANGED <<apiVars, viewerOnly, stations, feederOut, q, pageSize, selectedFeeder,
                   inflight, lastImport>>

\* the page size select: setPageSize(Number(e.target.value)); setPage(1)
SetPageSize ==
    /\ ~viewerOnly
    /\ \E size \in PageSizes : size # pageSize /\ pageSize' = size
    /\ page' = 1
    /\ UNCHANGED <<apiVars, viewerOnly, stations, feederOut, q, showAffectedOnly,
                   selectedFeeder, inflight, lastImport>>

\* a pager button: neither filteredRows.length nor pageSize changes, so the
\* reset effect does not run
GoToPage(p) ==
    /\ ~viewerOnly
    /\ page' = p
    /\ UNCHANGED <<apiVars, viewerOnly, stations, feederOut, q, showAffectedOnly, pageSize,
                   selectedFeeder, inflight, lastImport>>

\* First: setPage(1), disabled while page === 1
FirstPage == page # 1 /\ GoToPage(1)

\* Prev: setPage(p => Math.max(1, p - 1)), disabled while page === 1
PrevPage == page # 1 /\ GoToPage(IF page - 1 > 1 THEN page - 1 ELSE 1)

\* Next: setPage(p => Math.min(totalPages, p + 1)), disabled while
\* page === totalPages
NextPage ==
    LET last == totalPages IN
    /\ page # last
    /\ GoToPage(IF page + 1 < last THEN page + 1 ELSE last)

\* Last: setPage(totalPages), disabled while page === totalPages
LastPage == LET last == totalPages IN page # last /\ GoToPage(last)

Next ==
    \/ importCsv
    \/ loadDefaultCsv
    \/ loadDefaultCsvOk
    \/ loadDefaultCsvFailed
    \/ ToggleFeederOfRow
    \/ ToggleSelectedFeeder
    \/ ToggleStationOfRow
    \/ SelectFeeder
    \/ ShowAllFeeders
    \/ SetQ
    \/ SetShowAffectedOnly

Spec == Init /\ [][Next]_vars

\* The normalizer on its own inputs: imports of the alias and coercion rows
importNormFile == importFrom(NormFiles)

NextNorm ==
    \/ importNormFile
    \/ loadDefaultCsvFailed
    \/ ToggleFeederOfRow
    \/ ToggleStationOfRow

SpecNorm == Init /\ [][NextNorm]_vars

\* The pager on its own input: imports of the long file, the filters, the
\* feeder toggles, the page size and the pager buttons
importPageFile == importFrom(PageFiles)

NextPaging ==
    \/ importPageFile
    \/ loadDefaultCsvFailed
    \/ ToggleFeederOfRow
    \/ ToggleSelectedFeeder
    \/ SelectFeeder
    \/ ShowAllFeeders
    \/ SetShowAffectedOnly
    \/ SetPageSize
    \/ FirstPage
    \/ PrevPage
    \/ NextPage
    \/ LastPage

SpecPage == Init /\ [][NextPaging]_vars

\* The viewer: the loads, and calls of the two toggle functions for the
\* feeders and stations it shows
ViewerToggleFeeder ==
    /\ viewerOnly
    /\ \E name \in {FeederKey(stations[i]) : i \in 1..Len(stations)} :
          toggleFeeder(name)

ViewerToggleStation ==
    /\ viewerOnly
    /\ \E i \in 1..Len(stations) : toggleStation(stations[i].id)

\* the fetch answered ok with a file of the alias, coercion or count rows
loadViewerFileOk ==
    /\ inflight > 0
    /\ inflight' = inflight - 1
    /\ \E parsed \in NormFiles \cup AggFiles : applyParsedRows(parsed)

NextViewer ==
    \/ loadDefaultCsv
    \/ loadDefaultCsvOk
    \/ loadViewerFileOk
    \/ loadDefaultCsvFailed
    \/ ViewerToggleFeeder
    \/ ViewerToggleStation

SpecViewer == Init /\ [][NextViewer]_vars

\* The pager with every control: the search box with the name of a feeder
\* of the long file, and the Substation OFF checkbox of the file's last
\* station
PageTexts == {<<>>, F3}

SetPageQ == setQFrom(PageTexts)

ToggleLastStation ==
    /\ ~viewerOnly
    /\ \E rows \in {pageRows} :
       \E i \in 1..Len(rows) :
          /\ rows[i].id = stations[Len(stations)].id
          /\ ~IsOn(feederOut, IF selectedFeeder = ALL THEN rows[i].feeder
                              ELSE selectedFeeder)
          /\ toggleStation(rows[i].id)

NextPager ==
    \/ NextPaging
    \/ SetPageQ
    \/ ToggleLastStation

SpecPager == Init /\ [][NextPager]_vars

\* The dashboard with the file and the search texts of the text filter
importViewFile == importFrom(ViewFiles)

SetViewQ == setQFrom(ViewTexts)

NextView ==
    \/ importViewFile
    \/ loadDefaultCsvFailed
    \/ ToggleFeederOfRow
    \/ ToggleSelectedFeeder
    \/ ToggleStationOfRow
    \/ SelectFeeder
    \/ ShowAllFeeders
    \/ SetViewQ
    \/ SetShowAffectedOnly

SpecView == Init /\ [][NextView]_vars

\* The dashboard whose only load is the one the mount effect started: the
\* load buttons are left alone, so a load that completes was started before
\* every import of the behaviour
NextMount ==
    \/ importCsv
    \/ loadDefaultCsvOk
    \/ loadDefaultCsvFailed
    \/ ToggleFeederOfRow
    \/ ToggleSelectedFeeder
    \/ ToggleStationOfRow
    \/ SelectFeeder
    \/ ShowAllFeeders

SpecMount == Init /\ [][NextMount]_vars

\* The dashboard importing the files of the isOut coercion
importCoerceFile == importFrom(CoerceFiles)

NextCoerce ==
    \/ importCoerceFile
    \/ loadDefaultCsvFailed

SpecCoerce == Init /\ [][NextCoerce]_vars

\* The aggregation on its own inputs: imports of the count rows, and toggles
importCountFile == importFrom(AggFiles)

NextAgg ==
    \/ importCountFile
    \/ loadDefaultCsvFailed
    \/ ToggleFeederOfRow
    \/ ToggleStationOfRow

SpecAgg == Init /\ [][NextAgg]_vars

---------------------------------------------------------------------------
(* The snapshot functions: the publish handler (POST, OPTIONS) and the     *)
(* read handler, over the blob store 'status-store'.  A JSON value is a    *)
(* cell, a JSON object a record of cells; pct and offPct are kept in       *)
(* tenths, as the dashboard's pct is; updatedAt is the number of the       *)
(* instant.  The store is opened without a consistency option, which is   *)
(* eventual consistency: a new blob is served everywhere at once, an       *)
(* update reaches an edge location some time later.                        *)

\* body.key ?? 0
BodyOrZero(body, key) == Coalesce(Get(body, key), Num(0))

\* a - b
JsMinus(a, b) ==
    LET x == ToNumber(a)
        y == ToNumber(b)
    IN  IF x.nan \/ y.nan THEN NaN ELSE JsNum(x.v - y.v)

\* Number(a + b): a string operand makes + a concatenation
JsPlus(a, b) ==
    IF a.t = "str" \/ b.t = "str" THEN StringToNumber(ToStr(a) \o ToStr(b))
    ELSE LET x == ToNumber(a)
             y == ToNumber(b)
         IN  IF x.nan \/ y.nan THEN NaN ELSE JsNum(x.v + y.v)

\* Math.max(0, x)
MathMaxZero(x) == IF x.nan THEN NaN ELSE IF x.v > 0 THEN x ELSE JsNum(0)

\* body.whole ? Math.round(((body.part / body.whole) * 100) * 10) / 10 : 0
BodyRatio(body, part, whole) ==
    IF ~Truthy(Get(body, whole)) THEN JsNum(0)
    ELSE LET a == ToNumber(Get(body, part))
             t == ToNumber(Get(body, whole))
         IN  IF a.nan \/ t.nan THEN NaN ELSE JsNum(RoundedTenths(a.v, t.v))

\* Number(body.key ?? derived)
BodyOrDerived(body, key, derived) ==
    IF Get(body, key).t \in {"undef", "null"} THEN derived
    ELSE ToNumber(Get(body, key))

\* const payload = { ... }
Payload(body, now) ==
    [affected |-> ToNumber(BodyOrZero(body, "affected")),
     total |-> ToNumber(BodyOrZero(body, "total")),
     healthy |-> BodyOrDerived(body, "healthy",
                    MathMaxZero(JsMinus(BodyOrZero(body, "total"),
                                        BodyOrZero(body, "affected")))),
     pct |-> BodyOrDerived(body, "pct", BodyRatio(body, "affected", "total")),
     subsOff |-> ToNumber(BodyOrZero(body, "subsOff")),
     subsOn |-> ToNumber(BodyOrZero(body, "subsOn")),
     subsTotal |-> BodyOrDerived(body, "subsTotal",
                      JsPlus(BodyOrZero(body, "subsOff"), BodyOrZero(body, "subsOn"))),
     offPct |-> BodyOrDerived(body, "offPct", BodyRatio(body, "subsOff", "subsTotal")),
     updatedAt |-> now]

NumberFields ==
    {"affected", "total", "healthy", "pct", "subsOff", "subsOn", "subsTotal", "offPct"}

\* JSON.stringify(payload): NaN is written as null
Stringify(payload) ==
    [key \in NumberFields \cup {"updatedAt"} |->
        IF key = "updatedAt" THEN Num(payload.updatedAt)
        ELSE IF payload[key].nan THEN Null ELSE Num(payload[key].v)]

\* the read handler's fallback
fallback == [key \in NumberFields \cup {"updatedAt"} |->
                IF key = "updatedAt" THEN Null ELSE Num(0)]

\* Request bodies.  NotJson is a body req.json() cannot parse.  The bodies
\* that are objects carry either the consumer fields or the substation
\* fields, each given or omitted.
NotJson == Str(<<"{">>)

ConsumerBodies ==
    {[affected |-> a, total |-> t, healthy |-> h] :
        a \in {Undef, Num(1), Num(7)}, t \in {Undef, Num(5)}, h \in {Undef, Num(4)}}

SubsBodies ==
    {[subsOff |-> off, subsOn |-> on, subsTotal |-> all, offPct |-> pc] :
        off \in {Undef, Num(1)}, on \in {Undef, Num(3)},
        all \in {Undef, Num(0), Num(4)}, pc \in {Undef, Num(250)}}

\* a body with text fields, one with a field that is no number, and a JSON
\* value that is no object
OtherBodies ==
    {[subsOff |-> Str(<<"1">>), subsOn |-> Str(<<"3">>)],
     [affected |-> Str(<<"a","b","c">>), total |-> Num(5)],
     Num(5)}

Bodies == ConsumerBodies \cup SubsBodies \cup OtherBodies

\* req.json() throws on a body that is no JSON, and body.affected throws on
\* the JSON value null
Throws(body) == body = NotJson \/ body = Null

\* the instants new Date() may show
Instants == {1, 2}

\* JSON.stringify(payload) for every body and instant, computed once
Published ==
    [body \in Bodies |-> [now \in Instants |-> Stringify(Payload(body, now))]]

OkResponse == [status |-> 200, body |-> Str(<<"O","K">>)]
BadRequest == [status |-> 400, body |-> Str(<<"B","a","d">>)]

\* the publish handler answering OPTIONS
publishOptions ==
    /\ reply' = [status |-> 200, body |-> Str(<<>>)]
    /\ UNCHANGED <<current, edge, uiVars>>

\* the publish handler's catch block
publishRejected ==
    /\ reply' = BadRequest
    /\ UNCHANGED <<current, edge, uiVars>>

\* the publish handler with a body it can read: store.set('current', ...)
publishStored(body, now) ==
    /\ current' = Published[body][now]
    /\ edge' = IF current = Null THEN Published[body][now] ELSE edge
    /\ reply' = OkResponse
    /\ UNCHANGED uiVars

\* the publish handler
publish ==
    \/ publishOptions
    \/ \E body \in {NotJson, Null} : Throws(body) /\ publishRejected
    \/ \E body \in Bodies, now \in Instants : ~Throws(body) /\ publishStored(body, now)

\* the read handler: store.get('current') answers with the blob or with the
\* copy of the edge location
read ==
    /\ \E data \in {current, edge} :
          reply' = [status |-> 200, body |-> IF data = Null THEN fallback ELSE data]
    /\ UNCHANGED <<current, edge, uiVars>>

\* the store brings the edge location up to date
propagate ==
    /\ edge # current
    /\ edge' = current
    /\ UNCHANGED <<current, reply, uiVars>>

NextApi ==
    \/ publish
    \/ read
    \/ propagate

SpecApi == Init /\ [][NextApi]_vars

---------------------------------------------------------------------------
(* Properties                                                              *)

\* the stations as the aggregation publishes them, over all feeders
PublishedStations ==
    UNION {{feeders[g].stations[i] : i \in 1..Len(feeders[g].stations)} :
              g \in 1..Len(feeders)}

\* C1: in every reachable state each station's effOut equals
\* feederOut[station.feeder] (false when the feeder has no entry) OR
\* station.isOut.
C1_EffOutOfOwnFeeder ==
    \A s \in PublishedStations : s.effOut = (IsOn(feederOut, s.feeder) \/ s.isOut)

\* a step of one of the two Feeder OFF checkboxes; the first three
\* conjuncts hold of every such step and are tested first
FeederToggleStep ==
    /\ feederOut' # feederOut
    /\ lastImport' = lastImport
    /\ selectedFeeder' = selectedFeeder
    /\ ToggleFeederOfRow \/ ToggleSelectedFeeder

\* C2: toggleFeeder changes no station record, and toggling a feeder OFF
\* and then ON again leaves every station the aggregation groups under
\* that feeder with effOut equal to the isOut it had before: a step that
\* switches a feeder OFF leaves stations alone, forces effOut for the
\* feeder's stations, and the updater applied once more gives back isOut.
C2_ToggleFeederRoundTrip ==
    [][FeederToggleStep =>
        /\ stations' = stations
        /\ \A i \in 1..Len(stations) :
              LET name == FeederKey(stations[i]) IN
              (~IsOn(feederOut, name) /\ IsOn(feederOut', name)) =>
                  /\ EffOut(feederOut', stations'[i])
                  /\ EffOut(ToggledFeederOut(feederOut', name), stations'[i])
                        = stations[i].isOut]_vars

\* C2's case: a feeder has been switched OFF over a station that is not
\* itself out
C2_FeederSwitchedOff ==
    \E i \in 1..Len(stations) :
        IsOn(feederOut, FeederKey(stations[i])) /\ ~stations[i].isOut

RECURSIVE SumOfTotals(_)
SumOfTotals(groups) ==
    IF groups = <<>> THEN 0 ELSE Head(groups).total + SumOfTotals(Tail(groups))

ScenarioState ==
    /\ Len(stations) = 3
    /\ stations[1].feeder = F1 /\ Cons(stations[1]) = 40 /\ stations[1].isOut
    /\ stations[2].feeder = F1 /\ Cons(stations[2]) = 60 /\ ~stations[2].isOut
    /\ stations[3].feeder = F2 /\ Cons(stations[3]) = 100 /\ ~stations[3].isOut
    /\ IsOn(feederOut, F2) /\ ~IsOn(feederOut, F1)

\* C4: in the scenario state total is 200, affected is 140 (F1's isOut
\* station and all of F2) and pct is 70.0.
C4_Scenario ==
    ScenarioState =>
        /\ totals.total = 200
        /\ totals.affected = 140
        /\ totals.pct = 700

\* C4's case: the scenario state itself
C4_ScenarioReached == ScenarioState

\* affected/total*100 rounded to the nearest tenth, ties away from zero, in
\* tenths; exact integer arithmetic on non-negative counts
HalfAwayTenths(affected, total) == (2000 * affected + total) \div (2 * total)

\* C5: pct is 0 when total is 0, else affected/total*100 rounded half away
\* from zero to the nearest tenth (1 of 3 gives 33.3, 2 of 3 gives 66.7).
C5_PctHalfAwayFromZero ==
    totals.pct = IF totals.total = 0 THEN 0
                 ELSE HalfAwayTenths(totals.affected, totals.total)

\* a step that applies an imported file
ImportStep == importCsv \/ loadDefaultCsvOk

\* C6: an import replaces the state: afterwards the stations are exactly
\* those normalized from the imported rows and the override map is the one
\* built from those rows, with entries for their feeders only; nothing
\* toggled before survives.
C6_ImportReplaces ==
    [][ImportStep =>
        /\ ~Modified'
        /\ DOMAIN feederOut' = {stations'[i].feeder : i \in 1..Len(stations')}]_vars

\* C6's case: an import has replaced a state that toggles had changed
C6_TogglesDiscarded == lastImport.discarded /\ ~Modified /\ stations # <<>>

\* the override column of a parsed row
ColumnOverride(row) ==
    startsWith(toLowerCase(ToStr(Coalesce(Get(row, "feeder_isOut"), Str(FalseText)))),
               <<"t">>)

\* the override column of the last kept row of feeder f
RECURSIVE LastOverride(_, _)
LastOverride(kept, f) ==
    IF kept = <<>> THEN FALSE
    ELSE IF RowFeeder(kept[Len(kept)]) = f THEN ColumnOverride(kept[Len(kept)])
    ELSE LastOverride(SubSeq(kept, 1, Len(kept) - 1), f)

\* C7: right after an import feederOut[f] is the feeder_isOut column of the
\* last imported row of feeder f, so a feeder whose last row carries true
\* starts forced OFF.
C7_OverrideFromColumn ==
    ~Modified =>
        \A f \in DOMAIN feederOut :
            feederOut[f] = LastOverride(FilterRows(lastImport.parsed), f)

\* the parsed row resolves to a station: a name under name, station or
\* substation and a finite count under consumers, consumer_count or count
Resolves(row) == RowName(row) # <<>> /\ isFinite(RowConsumers(row))

\* C8: right after an import every row whose aliases resolve has its
\* station, with the name, count and feeder taken from the first alias
\* present.
C8_AliasesResolve ==
    ~Modified =>
        \A k \in 1..Len(lastImport.parsed) :
            LET row == lastImport.parsed[k] IN
            Resolves(row) =>
                \E i \in 1..Len(stations) :
                    /\ stations[i].name = RowName(row)
                    /\ stations[i].consumers = RowConsumers(row)
                    /\ stations[i].feeder = RowFeeder(row)

\* C9: a row is dropped exactly when its resolved name is empty after
\* trimming or its resolved count is not finite, so the stations are as
\* many as the resolving rows and none has an empty name.
C9_DroppedExactly ==
    ~Modified =>
        /\ Len(stations) =
              Cardinality({k \in 1..Len(lastImport.parsed) :
                              Resolves(lastImport.parsed[k])})
        /\ \A i \in 1..Len(stations) : stations[i].name # <<>>

\* C10: in every reachable state the station ids are pairwise distinct.
C10_IdsDistinct ==
    \A i, j \in 1..Len(stations) : i # j => stations[i].id # stations[j].id

\* C11: after any import every station has a non-negative consumers
\* count; a negative cell never produces a station with negative consumers.
C11_ConsumersNonNegative ==
    \A i \in 1..Len(stations) :
        stations[i].consumers.nan \/ stations[i].consumers.v >= 0

\* a step that changes one of the two outage stores
StoreStep == feederOut' # feederOut \/ stations' # stations

\* the entry for name is negated, a missing entry counting as false, and no
\* other entry changes
FlippedFeeder(name) ==
    feederOut' = [f \in DOMAIN feederOut \cup {name} |->
                     IF f = name THEN ~IsOn(feederOut, name) ELSE feederOut[f]]

\* isOut of the station with that id is negated; no other field and no
\* other station changes
FlippedStation(id) ==
    stations' = [i \in 1..Len(stations) |->
                    IF stations[i].id = id
                    THEN [id |-> stations[i].id, feeder |-> stations[i].feeder,
                          name |-> stations[i].name,
                          consumers |-> stations[i].consumers,
                          isOut |-> ~stations[i].isOut]
                    ELSE stations[i]]

\* every stored flag is true or false
StoredFlags ==
    /\ \A f \in DOMAIN feederOut : feederOut[f] \in BOOLEAN
    /\ \A i \in 1..Len(stations) : stations[i].isOut \in BOOLEAN

NextFilteredLen ==
    Len(FilteredRows(stations', feederOut', q', showAffectedOnly', selectedFeeder'))

\* the step shrinks the filtered rows or changes the page size, and leaves
\* the current page beyond the last available page
PageOrphaned ==
    /\ page > 1
    /\ NextFilteredLen < Len(filteredRows) \/ pageSize' # pageSize
    /\ page > TotalPages(NextFilteredLen, pageSize')

\* C13: a step that shrinks the filtered rows or changes the page size so
\* that the current page lies beyond the last available page ends on page 1,
\* and after every step the page is at least 1 and at most the last page.
C13_PageResetToFirst ==
    [][/\ PageOrphaned => page' = 1
       /\ page' >= 1
       /\ page' = 1 \/ page' <= TotalPages(NextFilteredLen, pageSize')]_vars

\* C13's case: on page 3 of 120 filtered rows at 50 rows a page, switching
\* the feeder of a row of that page back on leaves 10 rows and page 1
C13_ThirdPageOrphaned ==
    /\ page = 3 /\ pageSize = 50 /\ Len(filteredRows) = 120
    /\ ~viewerOnly /\ selectedFeeder = ALL
    /\ \E rows \in {pageRows} : \E i \in 1..Len(rows) :
          \E next \in {ToggledFeederOut(feederOut, rows[i].feeder)} :
             \E nLen \in {Len(FilteredRows(stations, next, q, showAffectedOnly,
                                            selectedFeeder))} :
                nLen = 10 /\ PageAfterEffect(page, nLen, pageSize) = 1

\* C14: when the feeder scope is the name of a feeder of the station set, every
\* filtered row is on that feeder, whatever the name is.
C14_ScopeRestricts ==
    selectedFeeder \in {stations[i].feeder : i \in 1..Len(stations)} =>
        \E rows \in {filteredRows} :
            \A i \in 1..Len(rows) : rows[i].feeder = selectedFeeder

\* the number of places of a list holding x
Count(seq, x) == Cardinality({i \in 1..Len(seq) : seq[i] = x})

\* needle occurs in hay when the case of the letters is ignored
OccursIgnoringCase(needle, hay) ==
    \E k \in 0..(Len(hay) - Len(needle)) :
        \A j \in 1..Len(needle) : LowerChar(hay[k + j]) = LowerChar(needle[j])

\* the row belongs to the current feeder scope
InScope(r) == selectedFeeder = ALL \/ r.feeder = selectedFeeder

\* the row passes the text filter and the affected-only filter
Wanted(r) ==
    /\ \/ trim(q) = <<>>
       \/ OccursIgnoringCase(trim(q), r.name)
       \/ OccursIgnoringCase(trim(q), r.feeder)
    /\ ~showAffectedOnly \/ r.effOut

\* C15: the flattened rows hold every station once, and a row of the current
\* feeder scope is in the filtered rows, as often as it is in the flattened
\* rows, if and only if the trimmed search text is empty or occurs, case
\* ignored, in the row's name or feeder, and the affected-only flag is off or
\* the row's effOut is true; no other row is in the filtered rows.
C15_FilterExact ==
    \E flat \in {FlatRows(stations, feederOut)} : \E rows \in {filteredRows} :
        /\ Len(flat) = Len(stations)
        /\ \A i \in 1..Len(stations) :
              Count(stations, stations[i]) =
                  Cardinality({k \in 1..Len(flat) :
                      [id |-> flat[k].id, feeder |-> flat[k].feeder,
                       name |-> flat[k].name, consumers |-> flat[k].consumers,
                       isOut |-> flat[k].isOut] = stations[i]})
        /\ \A i \in 1..Len(rows) : Count(flat, rows[i]) > 0
        /\ \A k \in 1..Len(flat) :
              Count(rows, flat[k]) =
                  IF InScope(flat[k]) /\ Wanted(flat[k]) THEN Count(flat, flat[k]) ELSE 0

\* C15's case: a search text with blanks around it and in another case keeps
\* a row by its name; with affected-only on, a row that matches the text is
\* dropped because it is in service, and an affected row is dropped because
\* it does not match the text
C15_TextAndAffectedFilter ==
    /\ q = <<" ","B"," ">> /\ showAffectedOnly /\ selectedFeeder = ALL
    /\ \E rows \in {filteredRows} : \E flat \in {FlatRows(stations, feederOut)} :
          /\ \E i \in 1..Len(rows) : rows[i].name = <<"A","b">>
          /\ \E k \in 1..Len(flat) :
                /\ flat[k].name = <<"b","A">> /\ ~flat[k].effOut
                /\ Count(rows, flat[k]) = 0
          /\ \E k \in 1..Len(flat) :
                flat[k].name = <<"E">> /\ flat[k].effOut /\ Count(rows, flat[k]) = 0

\* C16: the filtered rows handed to the pager are in ascending order of
\* station name, in this dashboard and in OutageConsumersDashboard4.jsx: of
\* two consecutive rows the first name does not compare greater than the second.
C16_RowsInNameOrder ==
    /\ SortedByName(filteredRows)
    /\ SortedByName(filteredRows4)

\* C17: an import whose parse reported errors leaves the stations and the
\* override map as they were; only an import without parse errors replaces
\* them.
C17_ImportAtomic ==
    [][(ParseErrors(lastImport'.parsed) # {} /\ importNormFile) =>
          (stations' = stations /\ feederOut' = feederOut)]_vars

\* a control that starts a load is on screen: the Load default CSV button of
\* the admin top bar, or the Retry button of the empty dashboard
LoadOffered == ~viewerOnly \/ TotalOf(stations) = 0

\* C18: a default-CSV load that fails leaves the stations, the override map,
\* the feeder scope and the page exactly as they were, and takes no load
\* control away: where one was offered before the failure it is offered
\* after it, and no load is left pending that would block it.
C18_FailedLoadHarmless ==
    [][loadDefaultCsvFailed =>
          /\ stations' = stations /\ feederOut' = feederOut
          /\ selectedFeeder' = selectedFeeder /\ page' = page
          /\ LoadOffered => (LoadOffered' /\ inflight' < MaxInflight)]_vars

\* C18's case: no load is pending any more, and the imported stations, a
\* toggled override and a feeder scope are in place
C18_StateKeptAfterLoad ==
    /\ inflight = 0 /\ stations # <<>> /\ selectedFeeder # ALL
    /\ feederOut # Installed[lastImport.parsed].feederOut
    /\ stations = Installed[lastImport.parsed].stations

\* C19: the completion of a load that was started before a user import does
\* not overwrite what the import, and the toggles made after it, left in the
\* stations and the override map. Only an import writes stations before the
\* mount-time load completes, so stations that are not empty come from one.
C19_ImportNotOverwritten ==
    [][(stations # <<>> /\ loadDefaultCsvOk) =>
          (stations' = stations /\ feederOut' = feederOut)]_vars

\* C20: importing the export of the stations installs the same stations in
\* the same order, each with the same id, feeder, name, consumers and isOut,
\* and an override map that is false for every feeder.
C20_ExportImportRoundTrip ==
    \E again \in {Reimported(stations)} :
        /\ again = stations
        /\ \A f \in DOMAIN InitialFeederOut(again) : ~InitialFeederOut(again)[f]

\* the first of the isOut and outage cells of the row that is not missing,
\* or the text false
OutSource(row) ==
    IF row.isOut.t \notin {"undef", "null"} THEN row.isOut
    ELSE IF row.outage.t \notin {"undef", "null"} THEN row.outage
    ELSE Str(<<"f","a","l","s","e">>)

\* the first character of the text that is no blank is the letter t, in
\* either case
BeginsWithLetterT(text) ==
    \E i \in 1..Len(text) :
        /\ text[i] \in {"t", "T"}
        /\ \A j \in 1..(i - 1) : text[j] = " "

\* the values the rule names, and what they come to
NamedOutcomes ==
    (Str(<<"t","r","u","e">>) :> TRUE) @@ (Str(<<"T">>) :> TRUE)
        @@ (Str(<<"T","R","U","E">>) :> TRUE) @@ (Bool(TRUE) :> TRUE)
        @@ (Num(1) :> FALSE) @@ (Str(<<"y","e","s">>) :> FALSE)
        @@ (Str(<<"f","a","l","s","e">>) :> FALSE)

\* C21: the imported isOut is true exactly when the text of the first cell
\* of isOut, outage that is not missing (the text false when both are),
\* trimmed and with case ignored, starts with the letter t: true, T, TRUE and
\* the boolean true give true; 1, yes, false and two missing columns give false.
C21_IsOutCoercion ==
    \A k \in 1..Len(stations) :
        \E row \in {lastImport.parsed[k]} : \E source \in {OutSource(row)} :
            /\ stations[k].isOut = BeginsWithLetterT(ToStr(source))
            /\ source \in DOMAIN NamedOutcomes =>
                  stations[k].isOut = NamedOutcomes[source]
            /\ (row.isOut.t = "undef" /\ row.outage.t = "undef") => ~stations[k].isOut

\* C21's case: an empty isOut cell next to an outage cell holding T has been
\* imported as out
C21_OutageColumnDecides ==
    /\ stations # <<>>
    /\ lastImport.parsed[1].isOut = Null
    /\ lastImport.parsed[1].outage = Str(<<"T">>)
    /\ stations[1].isOut

C23_HealthyIsTotalMinusAffected ==
    [][\A body \in ConsumerBodies, now \in Instants :
          (/\ Get(body, "healthy") = Undef
           /\ Get(body, "total") # Undef
           /\ Get(body, "affected") # Undef
           /\ publishStored(body, now))
             => /\ current'["healthy"]
                      = Num(current'["total"].n - current'["affected"].n)
                /\ current'["affected"].n + current'["healthy"].n
                      = current'["total"].n]_vars

\* C24: a publish whose body leaves offPct out stores the offPct of the
\* stored substation counts, rounded as pct is: subsOff of subsTotal when
\* the stored subsTotal is above 0, also when subsTotal was left out and
\* derived as subsOff + subsOn, and 0 only when the stored subsTotal is 0.
C24_OffPctFromStoredCounts ==
    [][\A body \in SubsBodies, now \in Instants :
          (Get(body, "offPct") = Undef /\ publishStored(body, now))
             => current'["offPct"]
                   = Num(Pct(current'["subsOff"].n, current'["subsTotal"].n))]_vars


\* a JSON object, as against a number, a text or null
IsObject(body) == "t" \notin DOMAIN body

\* C25: a publish with a malformed body is answered with a rejection and
\* leaves the stored snapshot as it was, an OPTIONS request leaves it as it
\* was, and whatever a publish stores is a snapshot with all nine fields.
C25_MalformedBodyRejected ==
    [][/\ \A body \in Bodies, now \in Instants :
             (~IsObject(body) /\ publishStored(body, now))
                => (reply'.status = 400 /\ current' = current)
       /\ (publishRejected \/ publishOptions) => current' = current
       /\ current' # current
             => DOMAIN current' = NumberFields \cup {"updatedAt"}]_vars


\* C26: after any sequence of search edits, affected-only and scope
\* changes, page size changes, pager clicks, toggles and imports, each
\* followed by the reset effect, the page is at least 1 and at most the
\* number of pages of the filtered rows.
C26_PageWithinPages == page >= 1 /\ page <= totalPages

\* C26's case: the affected rows fill six pages of 25 with the last station
\* alone on the sixth, which is the page shown
C26_OnLastPage ==
    /\ showAffectedOnly /\ pageSize = 25 /\ page = 6
    /\ Len(filteredRows) = 126


StationToggleStep ==
    /\ stations' # stations
    /\ feederOut' = feederOut
    /\ selectedFeeder' = selectedFeeder
    /\ ToggleStationOfRow

\* C28: the Substation OFF checkbox of a station is disabled while the
\* station's feeder is forced OFF: no step of a station checkbox changes
\* isOut of a station whose feeder group has its override set.
C28_StationLockedWhileFeederOff ==
    [][StationToggleStep =>
          \A i \in 1..Len(stations) :
             IsOn(feederOut, FeederKey(stations[i]))
                => stations'[i].isOut = stations[i].isOut]_vars


\* the bounds of an aggregate, of the totals or of a feeder group
WithinBounds(agg) ==
    /\ 0 <= agg.affected
    /\ agg.affected <= agg.total
    /\ agg.healthy >= 0

\* a step of a checkbox that takes a feeder or a station to OFF
ToggleToOffStep ==
    \/ /\ FeederToggleStep
       /\ \E f \in DOMAIN feederOut' : feederOut'[f] /\ ~IsOn(feederOut, f)
    \/ /\ StationToggleStep
       /\ \E i \in 1..Len(stations) : stations'[i].isOut /\ ~stations[i].isOut

\* C29: after every step the totals and every feeder group are within
\* bounds: 0 <= affected <= total, healthy >= 0, and pct from 0 to 100 (in
\* tenths: 0 to 1000); a step that takes a feeder or a station to OFF does
\* not decrease totals.affected and leaves totals.total as it was.
C29_AggregateWithinBounds ==
    [][/\ \E all \in {Totals(stations', feederOut')} :
             WithinBounds(all) /\ 0 <= all.pct /\ all.pct <= 1000
       /\ \E groups \in {Feeders(stations', feederOut')} :
             \A g \in 1..Len(groups) : WithinBounds(groups[g])
       /\ ToggleToOffStep
             => /\ AffectedOf(stations', feederOut') >= AffectedOf(stations, feederOut)
                /\ TotalOf(stations') = TotalOf(stations)]_vars


\* the names of the feeder groups of the current station set
GroupNames == {FeederKey(stations[i]) : i \in 1..Len(stations)}

\* C30: in every state the feeder scope is "ALL" or the name of a feeder
\* group of the current station set, and every import, from the file
\* control or from a load, leaves the scope at "ALL" and the page at 1.
C30_ScopeExists ==
    /\ [](selectedFeeder = ALL \/ selectedFeeder \in GroupNames)
    /\ [][(importCsv \/ loadDefaultCsvOk)
             => (selectedFeeder' = ALL /\ page' = 1)]_vars

\* C30's case: the scope is a feeder of an imported file, and that feeder
\* has been toggled OFF
C30_ScopeOnForcedFeeder ==
    /\ selectedFeeder # ALL
    /\ selectedFeeder \in GroupNames
    /\ IsOn(feederOut, selectedFeeder)

=============================================================================
